---- MODULE Spec2Model ----
(***************************************************************************)
(* The graph view model of src/app/dashboard/graphs/[id]/graph.tsx: the    *)
(* React state of the Graph component (nodes, edges, selectedNode,         *)
(* isLoading, the position debounce timer), the remote store it talks to   *)
(* (tables nodes and edges), and its asynchronous handlers, each cut at    *)
(* its awaits.  A handler reads nodes / edges / selectedNode from the       *)
(* closure of the render it was created in (fields cn / ce / cs of its      *)
(* task), and writes state either from that closure (setX(value)) or from   *)
(* the current state (setX(prev => ...)).                                   *)
(***************************************************************************)
EXTENDS Integers, FiniteSets, Sequences, TLC

VARIABLES
  nodes,        \* useState<Node[]>: the local node set
  edges,        \* useState<Edge[]>: the local edge set
  selectedNode, \* useState<Node | null>
  isLoading,    \* useState(true)
  mounted,      \* the component is mounted
  apiKey,       \* useUser(): user.openai_api_key is set
  timeoutRef,   \* positionUpdateTimeoutRef.current
  timers,       \* the timeouts pending in the runtime
  rnodes,       \* remote table nodes (rows of this graph)
  redges,       \* remote table edges
  loadPc,       \* position of fetchGraph
  loadNodes,    \* nodesData of fetchGraph
  tasks,        \* the handlers in flight, each with its closure and position
  failures,     \* remote calls of handlers that have failed so far
  quiet,        \* ms since the last position change (capped at the debounce delay)
  runMoves,     \* position changes in the current run (0: none yet; capped)
  runBatches,   \* write batches started since the current run began
  lastBatch,    \* the nodes the most recently started write batch carries
  updating      \* onUpdateStart calls not yet followed by their onUpdateEnd

vars == <<nodes, edges, selectedNode, isLoading, mounted, apiKey, timeoutRef, timers, rnodes,
          redges, loadPc, loadNodes, tasks, failures,
          quiet, runMoves, runBatches, lastBatch, updating>>

localVars == <<nodes, edges, selectedNode>>
remoteVars == <<rnodes, redges>>
storeVars == <<rnodes, redges, failures>>
loadVars == <<isLoading, mounted, apiKey, loadPc, loadNodes>>
timeVars == <<timeoutRef, timers, quiet, runMoves, runBatches, lastBatch, updating>>

----------------------------------------------------------------------------
(* Bounds *)

MaxNodes == 4
MaxEdges == 3
MaxTasks == 2
MaxRemove == 2
MaxPos == 1
MaxMoves == 2
MaxFailures == 1
MaxOps == 2
MaxText == 1

NodeIds == 1..MaxNodes
EdgeIds == 1..MaxEdges
TaskIds == 1..MaxTasks

----------------------------------------------------------------------------
(* Data *)

NodeType == {"prompt", "analysis", "conditional"}

DefaultPos == 0

(* setTimeout(..., 500), and the step of the model's clock *)
DebounceMs == 500
TickMs == DebounceMs \div 2

NoSel == [id |-> 0, type |-> "none"]
NoEdge == [id |-> 0, source |-> 0, target |-> 0, sourceHandle |-> "none"]
NoRow == [id |-> 0, type |-> "none", childId |-> 0, trueChildId |-> 0,
          falseChildId |-> 0, pos |-> 0, prompt |-> 0]
NoTimer == [left |-> -1, snap |-> {}]

MkNode(i, ty, c, t, f, p) ==
  [id |-> i, type |-> ty, childId |-> c, trueChildId |-> t, falseChildId |-> f,
   pos |-> p, prompt |-> 0]

MkEdge(i, s, t, h) == [id |-> i, source |-> s, target |-> t, sourceHandle |-> h]

MkRemoteEdge(i, s, t) == [id |-> i, source |-> s, target |-> t]

Ids(ns) == {n.id : n \in ns}

Find(ns, i) == CHOOSE n \in ns : n.id = i

TypeIn(ns, i) == IF i \in Ids(ns) THEN Find(ns, i).type ELSE "none"

MinEdge(es) == CHOOSE e \in es : \A f \in es : e.id <= f.id

----------------------------------------------------------------------------
(* The handles a node type renders as connection sources (nodes.tsx) *)

SourceHandles(ty) ==
  IF ty = "conditional" THEN {"true", "false"} ELSE {"none"}

----------------------------------------------------------------------------
(* updateNodeRelationships: the payload field a (source type, handle) names *)

RelField(ty, h) ==
  IF ty = "analysis" THEN "childId"
  ELSE IF ty = "conditional" /\ h = "true" THEN "trueChildId"
  ELSE IF ty = "conditional" /\ h = "false" THEN "falseChildId"
  ELSE "none"

(* updateNodeData, local part: setNodes(current => current.map(...)) *)
SetNodeField(ns, i, fld, v) ==
  {IF n.id = i THEN [n EXCEPT ![fld] = v] ELSE n : n \in ns}

(* updateNodeData, remote part: update({data: {...currentNode.data, ...newData}}) *)
MergeRow(row, fetched, fld, v) ==
  [[row EXCEPT !.type = fetched.type, !.childId = fetched.childId,
               !.trueChildId = fetched.trueChildId,
               !.falseChildId = fetched.falseChildId,
               !.prompt = fetched.prompt] EXCEPT ![fld] = v]

----------------------------------------------------------------------------
(* Graph load: fetchGraph *)

(* flowNodes: the renderer-facing node of a stored row; a row without a    *)
(* type has type "none": nodeType = nodeData.type || "prompt"               *)
LoadNode(r) ==
  LET ty == IF r.type = "none" THEN "prompt" ELSE r.type
  IN [MkNode(r.id, ty,
             IF ty = "analysis" THEN r.childId ELSE 0,
             IF ty = "conditional" THEN r.trueChildId ELSE 0,
             IF ty = "conditional" THEN r.falseChildId ELSE 0,
             r.pos)
        EXCEPT !.prompt = IF ty = "prompt" THEN r.prompt ELSE 0]

LoadHandleFalseFirst(e, rows) ==
  IF e.source \in Ids(rows) /\ Find(rows, e.source).type = "conditional"
  THEN LET src == Find(rows, e.source)
       IN IF src.falseChildId # 0 /\ src.falseChildId = e.target THEN "false"
          ELSE IF src.trueChildId # 0 /\ src.trueChildId = e.target THEN "true"
          ELSE "none"
  ELSE "none"

(* flowEdges: the handle of a stored edge, recomputed from its source row *)
LoadHandle(e, rows) ==
  IF e.source \in Ids(rows) /\ Find(rows, e.source).type = "conditional"
  THEN LET src == Find(rows, e.source)
       IN IF src.trueChildId # 0 /\ src.trueChildId = e.target THEN "true"
          ELSE IF src.falseChildId # 0 /\ src.falseChildId = e.target THEN "false"
          ELSE "none"
  ELSE "none"

LoadEdge(e, rows) == MkEdge(e.id, e.source, e.target, LoadHandle(e, rows))

(* flowEdges: the stored edges whose source is among the fetched nodes *)
LoadedEdges(rows, res) ==
  {LoadEdge(e, rows) : e \in {x \in res : x.source \in Ids(rows)}}

----------------------------------------------------------------------------
(* Handlers in flight *)

IdleTask ==
  [op |-> "none", pc |-> "idle", seq |-> 0, source |-> 0, target |-> 0, handle |-> "none",
   stype |-> "none", ntype |-> "none", removed |-> <<>>, rem |-> <<>>, cur |-> 0,
   cn |-> {}, ce |-> {}, cs |-> NoSel, existing |-> {}, todo |-> {},
   ptodo |-> {},
   newNode |-> 0, newEdge |-> NoEdge,
   relId |-> 0, fld |-> "none", val |-> 0, fetched |-> NoRow]

Free(i) == tasks[i].pc \in {"idle", "done"}

(* the number of user operations started so far *)
Started == CHOOSE k \in 0..MaxOps : /\ \E i \in TaskIds : tasks[i].seq = k
                                    /\ \A i \in TaskIds : tasks[i].seq <= k

(* a handler as the user's next operation starts it *)
NewTask(op) ==
  [IdleTask EXCEPT !.op = op, !.seq = Started + 1,
                   !.cn = nodes, !.ce = edges, !.cs = selectedNode]

(* The handler has returned: its closure is gone *)
Done(t) ==
  [t EXCEPT !.pc = "done", !.cn = {}, !.ce = {}, !.todo = {}, !.rem = <<>>,
            !.fetched = NoRow]

(* A handler's view while it runs up to its next await: its task and the  *)
(* React state it has written so far                                       *)
Machine(i) ==
  [t |-> tasks[i], nodes |-> nodes, edges |-> edges, sel |-> selectedNode]

Apply(i, m) ==
  /\ tasks' = [tasks EXCEPT ![i] = m.t]
  /\ nodes' = m.nodes
  /\ edges' = m.edges
  /\ selectedNode' = m.sel

(* the outcome of a remote call: at most MaxFailures calls fail *)
Outcome(ok) ==
  /\ ok \in BOOLEAN
  /\ ~ok => failures < MaxFailures
  /\ failures' = IF ok THEN failures ELSE failures + 1

----------------------------------------------------------------------------
(* The ids the remote store assigns on insert: ids it has never given out.  *)
(* An id counts as given out while anything still refers to it: a row, the  *)
(* local view, a payload field, a closure, a pending timeout.  The store    *)
(* hands out the least id that is free.                                      *)

EdgeIdsOf(es) == {e.id : e \in es}

NodeRefs(ns) ==
  Ids(ns) \cup {n.childId : n \in ns} \cup {n.trueChildId : n \in ns}
          \cup {n.falseChildId : n \in ns}

EdgeRefs(es) == {e.source : e \in es} \cup {e.target : e \in es}

SeqRange(q) == {q[k] : k \in 1..Len(q)}

TaskEdgeIds(t) ==
  EdgeIdsOf(t.ce) \cup EdgeIdsOf(t.todo) \cup EdgeIdsOf(t.existing) \cup {t.newEdge.id}

TaskNodeIds(t) ==
  NodeRefs(t.cn) \cup EdgeRefs(t.ce) \cup EdgeRefs(t.todo) \cup EdgeRefs(t.existing)
    \cup {t.source, t.target, t.cur, t.newNode, t.relId, t.cs.id}
    \cup (IF t.fld = "prompt" THEN {} ELSE {t.val})
    \cup SeqRange(t.removed) \cup SeqRange(t.rem) \cup t.ptodo
    \cup NodeRefs({t.fetched})

UsedEdgeIds ==
  EdgeIdsOf(edges) \cup EdgeIdsOf(redges) \cup UNION {TaskEdgeIds(tasks[i]) : i \in TaskIds}

UsedNodeIds ==
  NodeRefs(nodes) \cup NodeRefs(rnodes) \cup NodeRefs(loadNodes) \cup EdgeRefs(edges)
    \cup EdgeRefs(redges) \cup {selectedNode.id} \cup NodeRefs(lastBatch)
    \cup UNION {NodeRefs(T.snap) : T \in timers}
    \cup UNION {TaskNodeIds(tasks[i]) : i \in TaskIds}

FreeEdgeIds == EdgeIds \ UsedEdgeIds

FreeNodeIds == NodeIds \ UsedNodeIds

NewEdgeId == CHOOSE i \in FreeEdgeIds : \A j \in FreeEdgeIds : i <= j

NewNodeId == CHOOSE i \in FreeNodeIds : \A j \in FreeNodeIds : i <= j

----------------------------------------------------------------------------
(* onConnect, after updateNodeRelationships: setEdges(currentEdges => ...) *)

ConnectKeepsAnalysisEdges(e, srcType, s, h) ==
  IF srcType = "conditional" /\ h # "none"
  THEN ~(e.source = s /\ e.sourceHandle = h)
  ELSE TRUE

ConnectKeepsIgnoringHandle(e, srcType, s, h) ==
  IF srcType = "analysis" \/ srcType = "conditional" THEN e.source # s ELSE TRUE

ConnectKeeps(e, srcType, s, h) ==
  IF srcType = "analysis" THEN e.source # s
  ELSE IF srcType = "conditional" /\ h # "none"
       THEN ~(e.source = s /\ e.sourceHandle = h)
       ELSE TRUE

CommitConnectAppends(m) ==
  [m EXCEPT !.edges = m.edges \cup {m.t.newEdge}, !.t = Done(m.t)]

(* setEdges(currentEdges => [...filteredEdges, newEdgeObj]) *)
CommitConnect(m) ==
  LET srcType == m.t.stype
      kept == {e \in m.edges : ConnectKeeps(e, srcType, m.t.source, m.t.handle)}
  IN [m EXCEPT !.edges = kept \cup {m.t.newEdge}, !.t = Done(m.t)]

(* handleAddNode, after updateNodeRelationships: setEdges(prev => [...prev, newEdge]) *)
CommitAdd(m) ==
  [m EXCEPT !.edges = m.edges \cup {m.t.newEdge}, !.t = Done(m.t)]

(* onEdgesChangeCallback: the loop over the removed edges *)
EdgesLoop(m) ==
  IF m.t.todo = {} THEN [m EXCEPT !.t = Done(m.t)]
  ELSE [m EXCEPT !.t.pc = "edel"]

(* deleteNode: the loop over connectedEdges, then the node row *)
NodeEdgesLoopSkipsEdges(m) == [m EXCEPT !.t.pc = "nrow"]

NodeEdgesLoop(m) ==
  IF m.t.todo = {} THEN [m EXCEPT !.t.pc = "nrow"]
  ELSE [m EXCEPT !.t.pc = "ndel"]

(* What follows an updateNodeRelationships call, by handler *)
AfterRel(m) ==
  CASE m.t.op = "connect" -> CommitConnect(m)
    [] m.t.op = "addNode" -> CommitAdd(m)
    [] m.t.op = "edgesChange" -> EdgesLoop(m)
    [] m.t.op = "generate" -> [m EXCEPT !.t = Done(m.t)]
    [] OTHER -> NodeEdgesLoop(m)

(* updateNodeRelationships -> updateNodeData up to its first await *)
StartRel(m, i, fld, v) ==
  IF fld = "none" THEN AfterRel(m)
  ELSE [m EXCEPT !.nodes = SetNodeField(m.nodes, i, fld, v),
                 !.t.pc = "relsel", !.t.relId = i, !.t.fld = fld, !.t.val = v]

(* deleteNode up to its first await: the local removal, from the closure *)
DeleteNodeSync(m, n) ==
  NodeEdgesLoop(
    [m EXCEPT !.edges = {e \in m.t.ce : e.source # n /\ e.target # n},
              !.nodes = {x \in m.t.cn : x.id # n},
              !.sel = IF m.t.cs.id = n THEN NoSel ELSE m.sel,
              !.t.cur = n,
              !.t.todo = {e \in m.t.ce : e.source = n \/ e.target = n}])

(* onNodesChangeCallback after a deleteNode returned: the next removal, or *)
(* applyNodeChanges(otherChanges, nodes) on the closure's nodes             *)
AfterNodeRow(m) ==
  LET rest == Tail(m.t.rem)
  IN IF rest = <<>>
     THEN [m EXCEPT !.nodes = m.t.cn, !.t = Done(m.t)]
     ELSE DeleteNodeSync([m EXCEPT !.t.rem = rest], Head(rest))

----------------------------------------------------------------------------
(* Initial state: the component is mounted, nothing is loaded yet; the     *)
(* remote store holds a graph built earlier                                 *)

StoreEmpty == [rn |-> {}, re |-> {}]

StoreThree ==
  [rn |-> {MkNode(1, "analysis", 0, 0, 0, 0), MkNode(2, "conditional", 0, 0, 0, 0),
           MkNode(3, "prompt", 0, 0, 0, 0)},
   re |-> {}]

StorePair ==
  [rn |-> {MkNode(1, "analysis", 2, 0, 0, 0), MkNode(2, "prompt", 0, 0, 0, 0)},
   re |-> {MkRemoteEdge(1, 1, 2)}]

StoreLinked ==
  [rn |-> {MkNode(1, "analysis", 3, 0, 0, 0), MkNode(2, "conditional", 0, 3, 0, 0),
           MkNode(3, "prompt", 0, 0, 0, 0)},
   re |-> {MkRemoteEdge(1, 1, 3), MkRemoteEdge(2, 2, 3)}]

(* a conditional node with both handles connected *)
StoreBranched ==
  [rn |-> {MkNode(1, "conditional", 0, 2, 3, 0), MkNode(2, "prompt", 0, 0, 0, 0),
           MkNode(3, "prompt", 0, 0, 0, 0)},
   re |-> {MkRemoteEdge(1, 1, 2), MkRemoteEdge(2, 1, 3)}]

(* stored graphs as a load can find them: node 1 of any stored type, with  *)
(* a type the view does not know ("other") or none at all ("none"), any     *)
(* payload fields, and any of the edges 1 -> 2, 1 -> 3                        *)
LoadTypes == NodeType \cup {"none", "other"}

LoadStores ==
  {[rn |-> {MkNode(1, ty, c, t, f, 0), MkNode(2, "prompt", 0, 0, 0, 0),
            MkNode(3, "prompt", 0, 0, 0, 0)},
    re |-> E] :
     ty \in LoadTypes, c \in {0, 2}, t \in {0, 2, 3}, f \in {0, 2, 3},
     E \in SUBSET {MkRemoteEdge(1, 1, 2), MkRemoteEdge(2, 1, 3)}}

InitUser(stores, keys) ==
  /\ nodes = {}
  /\ edges = {}
  /\ selectedNode = NoSel
  /\ isLoading = TRUE
  /\ mounted = TRUE
  /\ apiKey \in keys
  /\ timeoutRef = NoTimer
  /\ timers = {}
  /\ \E st \in stores :
       /\ rnodes = st.rn
       /\ redges = st.re
  /\ loadPc = "graph"
  /\ loadNodes = {}
  /\ tasks = [i \in TaskIds |-> IdleTask]
  /\ failures = 0
  /\ quiet = DebounceMs
  /\ runMoves = 0
  /\ runBatches = 0
  /\ lastBatch = {}
  /\ updating = 0

(* a user with an API key set *)
InitWith(stores) == InitUser(stores, {TRUE})

Init == InitWith({StoreEmpty, StoreThree, StoreLinked})

----------------------------------------------------------------------------
(* fetchGraph, one action per await.  The fetches only read: what is left  *)
(* of a load when the component unmounts changes nothing, and is left out.  *)

FetchGraphRecord(ok) ==
  /\ mounted
  /\ loadPc = "graph"
  /\ loadPc' = IF ok THEN "nodes" ELSE "failed"
  /\ UNCHANGED <<localVars, storeVars, timeVars, tasks, isLoading, mounted, apiKey, loadNodes>>

FetchNodes(ok) ==
  /\ mounted
  /\ loadPc = "nodes"
  /\ loadPc' = IF ok THEN "edges" ELSE "failed"
  /\ loadNodes' = IF ok THEN rnodes ELSE loadNodes
  /\ UNCHANGED <<localVars, storeVars, timeVars, tasks, isLoading, mounted, apiKey>>

(* an await of fetchGraph throws: catch (error) { setIsLoading(false) } *)
FetchThrows ==
  /\ mounted
  /\ loadPc \in {"graph", "nodes", "edges"}
  /\ loadPc' = "failed"
  /\ isLoading' = FALSE
  /\ UNCHANGED <<localVars, storeVars, timeVars, tasks, mounted, apiKey, loadNodes>>

FetchEdges(ok) ==
  /\ mounted
  /\ loadPc = "edges"
  /\ IF ok
     THEN /\ nodes' = {LoadNode(r) : r \in loadNodes}
          /\ edges' = LoadedEdges(loadNodes, redges)
          /\ isLoading' = FALSE
          /\ loadPc' = "done"
     ELSE /\ loadPc' = "failed"
          /\ UNCHANGED <<nodes, edges, isLoading>>
  /\ UNCHANGED <<selectedNode, storeVars, timeVars, tasks, mounted, apiKey, loadNodes>>

----------------------------------------------------------------------------
(* onNodeClick *)

onNodeClick(n) ==
  /\ mounted /\ ~isLoading
  /\ n \in nodes
  /\ selectedNode' = [id |-> n.id, type |-> n.type]
  /\ UNCHANGED <<nodes, edges, storeVars, loadVars, timeVars, tasks>>

----------------------------------------------------------------------------
(* Remote calls *)

(* createEdge: insert into edges, returning the row *)
createEdge(ok, s, t) ==
  IF ok
  THEN /\ FreeEdgeIds # {}
       /\ redges' = redges \cup {MkRemoteEdge(NewEdgeId, s, t)}
  ELSE UNCHANGED redges

CreatedEdgeLocalId(s, t, h) == MkEdge(MaxEdges + 1, s, t, h)

(* createEdge: newEdgeObj, with id: newEdge.id *)
CreatedEdge(s, t, h) == MkEdge(NewEdgeId, s, t, h)

(* deleteEdge: delete from edges where id = edgeId *)
deleteEdge(ok, edgeId) ==
  redges' = IF ok THEN {e \in redges : e.id # edgeId} ELSE redges

----------------------------------------------------------------------------
(* onConnect *)

(* the edges onConnect deletes remotely before creating the new one *)
ExistingEdges(es, srcType, s, h) ==
  IF srcType = "analysis" THEN {e \in es : e.source = s}
  ELSE IF srcType = "conditional" /\ h # "none"
       THEN {e \in es : e.source = s /\ e.sourceHandle = h}
       ELSE {}

SourceNeverRejected(ty) == FALSE

(* if (sourceNode.type === "prompt") return *)
SourceRejected(ty) == ty = "prompt"

onConnectStart(i, s, t, h) ==
  /\ mounted /\ ~isLoading
  /\ Free(i)
  /\ s \in Ids(nodes) /\ t \in Ids(nodes)
  /\ h \in SourceHandles(TypeIn(nodes, s))
  /\ LET ty == TypeIn(nodes, s)
         ex == ExistingEdges(edges, ty, s, h)
         t0 == [NewTask("connect") EXCEPT !.source = s, !.target = t,
                                          !.handle = h, !.stype = ty]
     IN tasks' = [tasks EXCEPT ![i] =
          IF SourceRejected(ty) THEN Done(t0)
          ELSE [t0 EXCEPT !.existing = ex, !.todo = ex,
                          !.pc = IF ex = {} THEN "create" ELSE "del"]]
  /\ UNCHANGED <<localVars, storeVars, loadVars, timeVars>>

LoopRestRetries(ok, todo, e) == IF ok THEN todo \ {e} ELSE todo

(* for (const edge of ...) { await deleteEdge(edge.id); ... }: the edges  *)
(* the loop still has to visit after deleteEdge returned, whatever it      *)
(* returned                                                                  *)
LoopRest(ok, todo, e) == todo \ {e}

ConnectDeleteEdge(i, ok) ==
  /\ tasks[i].pc = "del"
  /\ Outcome(ok)
  /\ LET e == MinEdge(tasks[i].todo)
         rest == LoopRest(ok, tasks[i].todo, e)
     IN /\ deleteEdge(ok, e.id)
        /\ tasks' = [tasks EXCEPT ![i].todo = rest,
                                  ![i].pc = IF rest = {} THEN "create" ELSE "del"]
  /\ UNCHANGED <<localVars, rnodes, loadVars, timeVars>>

AfterCreateUnchecked(m, ok) ==
  StartRel([m EXCEPT !.t.newEdge = CreatedEdge(m.t.source, m.t.target, m.t.handle)],
           m.t.source, RelField(m.t.stype, m.t.handle), m.t.target)

(* if (newEdgeObj) { await updateNodeRelationships(...); setEdges(...) } *)
AfterCreate(m, ok) ==
  IF ok
  THEN StartRel([m EXCEPT !.t.newEdge = CreatedEdge(m.t.source, m.t.target, m.t.handle)],
                m.t.source, RelField(m.t.stype, m.t.handle), m.t.target)
  ELSE [m EXCEPT !.t = Done(m.t)]

ConnectCreateEdge(i, ok) ==
  /\ tasks[i].pc = "create"
  /\ Outcome(ok)
  /\ createEdge(ok, tasks[i].source, tasks[i].target)
  /\ Apply(i, AfterCreate(Machine(i), ok))
  /\ UNCHANGED <<rnodes, loadVars, timeVars>>

----------------------------------------------------------------------------
(* updateNodeData, remote part: select data, then update the merged data *)

SelectNodeData(i, ok) ==
  /\ tasks[i].pc = "relsel"
  /\ Outcome(ok)
  /\ ok => tasks[i].relId \in Ids(rnodes)
  /\ LET m == Machine(i)
     IN Apply(i, IF ok
                 THEN [m EXCEPT !.t.pc = "relupd",
                                !.t.fetched = Find(rnodes, m.t.relId)]
                 ELSE AfterRel(m))
  /\ UNCHANGED <<remoteVars, loadVars, timeVars>>

UpdateNodeData(i, ok) ==
  /\ tasks[i].pc = "relupd"
  /\ Outcome(ok)
  /\ rnodes' = IF ok
               THEN {IF r.id = tasks[i].relId
                     THEN MergeRow(r, tasks[i].fetched, tasks[i].fld, tasks[i].val)
                     ELSE r : r \in rnodes}
               ELSE rnodes
  /\ Apply(i, AfterRel([Machine(i) EXCEPT !.t.fetched = NoRow]))
  /\ UNCHANGED <<redges, loadVars, timeVars>>

----------------------------------------------------------------------------
(* onEdgesChangeCallback with remove changes *)

ApplyEdgeChangesKeepsRemoved(es, removedEdges) == es

(* applyEdgeChanges(changes, edges) for remove changes *)
ApplyEdgeChanges(es, removedEdges) == es \ removedEdges

onEdgesChangeStart(i, removedEdges) ==
  /\ mounted /\ ~isLoading
  /\ Free(i)
  /\ removedEdges # {} /\ removedEdges \subseteq edges
  /\ Cardinality(removedEdges) <= MaxRemove
  /\ edges' = ApplyEdgeChanges(edges, removedEdges)
  /\ tasks' = [tasks EXCEPT ![i] =
       [NewTask("edgesChange") EXCEPT !.pc = "edel", !.existing = removedEdges,
                                      !.todo = removedEdges]]
  /\ UNCHANGED <<nodes, selectedNode, storeVars, loadVars, timeVars>>

EdgesChangeDeleteEdge(i, ok) ==
  /\ tasks[i].pc = "edel"
  /\ Outcome(ok)
  /\ LET e == MinEdge(tasks[i].todo)
         m == [Machine(i) EXCEPT !.t.todo = LoopRest(ok, @, e)]
     IN /\ deleteEdge(ok, e.id)
        /\ Apply(i, IF e.source \in Ids(m.t.cn) /\ e.target \in Ids(m.t.cn)
                    THEN StartRel(m, e.source,
                                  RelField(TypeIn(m.t.cn, e.source), e.sourceHandle), 0)
                    ELSE EdgesLoop(m))
  /\ UNCHANGED <<rnodes, loadVars, timeVars>>

----------------------------------------------------------------------------
(* onNodesChangeCallback with remove changes -> deleteNode *)

Distinct(q) == \A a, b \in 1..Len(q) : a # b => q[a] # q[b]

RemoveBatches ==
  {q \in UNION {[1..k -> Ids(nodes)] : k \in 1..MaxRemove} : Distinct(q)}

onNodesChangeStart(i, removed) ==
  /\ mounted /\ ~isLoading
  /\ Free(i)
  /\ removed \in RemoveBatches
  /\ LET t0 == [NewTask("nodesChange") EXCEPT !.removed = removed, !.rem = removed]
     IN Apply(i, DeleteNodeSync([Machine(i) EXCEPT !.t = t0], Head(removed)))
  /\ UNCHANGED <<storeVars, loadVars, timeVars>>

(* Flow.onKeyDown: the changes a Delete / Backspace key press hands to     *)
(* onNodesChange                                                             *)
KeyDownChanges(sel) == IF sel = NoSel THEN <<>> ELSE <<sel.id>>

onKeyDown(i) ==
  /\ mounted /\ ~isLoading
  /\ Free(i)
  /\ LET removed == KeyDownChanges(selectedNode)
         t0 == [NewTask("nodesChange") EXCEPT !.removed = removed, !.rem = removed]
     IN IF removed = <<>>
        THEN UNCHANGED <<localVars, tasks>>
        ELSE Apply(i, DeleteNodeSync([Machine(i) EXCEPT !.t = t0], Head(removed)))
  /\ UNCHANGED <<storeVars, loadVars, timeVars>>

DeleteNodeEdge(i, ok) ==
  /\ tasks[i].pc = "ndel"
  /\ Outcome(ok)
  /\ LET e == MinEdge(tasks[i].todo)
         m == [Machine(i) EXCEPT !.t.todo = LoopRest(ok, @, e)]
     IN /\ deleteEdge(ok, e.id)
        /\ Apply(i, IF e.target = m.t.cur /\ e.source \in Ids(m.t.cn)
                    THEN StartRel(m, e.source,
                                  RelField(TypeIn(m.t.cn, e.source), e.sourceHandle), 0)
                    ELSE NodeEdgesLoop(m))
  /\ UNCHANGED <<rnodes, loadVars, timeVars>>

DeleteNodeRow(i, ok) ==
  /\ tasks[i].pc = "nrow"
  /\ Outcome(ok)
  /\ rnodes' = IF ok THEN {r \in rnodes : r.id # tasks[i].cur} ELSE rnodes
  /\ Apply(i, AfterNodeRow(Machine(i)))
  /\ UNCHANGED <<redges, loadVars, timeVars>>

----------------------------------------------------------------------------
(* handleAddNode *)

AutoHandleFalseFirst(sel, es) ==
  IF sel.type = "conditional"
  THEN IF ~\E e \in es : e.source = sel.id /\ e.sourceHandle = "false" THEN "false"
       ELSE IF ~\E e \in es : e.source = sel.id /\ e.sourceHandle = "true"
            THEN "true"
            ELSE "none"
  ELSE "none"

(* the handle of the automatic edge from the selected node *)
AutoHandle(sel, es) ==
  IF sel.type = "conditional"
  THEN IF ~\E e \in es : e.source = sel.id /\ e.sourceHandle = "true" THEN "true"
       ELSE IF ~\E e \in es : e.source = sel.id /\ e.sourceHandle = "false"
            THEN "false"
            ELSE "none"
  ELSE "none"

(* if (!graphId || !label || !type) return; a missing field is type "none" *)
MissingFields(ty) == ty = "none"

handleAddNodeStart(i, ty) ==
  /\ mounted /\ ~isLoading
  /\ Free(i)
  /\ ty \in NodeType \cup {"none"}
  /\ LET t0 == [NewTask("addNode") EXCEPT !.ntype = ty]
     IN tasks' = [tasks EXCEPT ![i] =
          IF MissingFields(ty) THEN Done(t0) ELSE [t0 EXCEPT !.pc = "ainsert"]]
  /\ UNCHANGED <<localVars, storeVars, loadVars, timeVars>>

AutoEdgeForAnySelection(sel) == sel # NoSel

(* if (selectedNode) { if (selectedNode.type === "prompt") return; ... } *)
AutoEdgeWanted(sel) == sel # NoSel /\ sel.type # "prompt"

(* after the node insert returned: setNodes([...nodes, newNode]), then the *)
(* automatic edge, if a non-prompt node is selected                         *)
AfterInsert(m, newId) ==
  LET newNode == MkNode(newId, m.t.ntype, 0, 0, 0, DefaultPos)
      m1 == [m EXCEPT !.nodes = m.t.cn \cup {newNode}, !.t.newNode = newId]
      sel == m.t.cs
  IN IF ~AutoEdgeWanted(sel)
     THEN [m1 EXCEPT !.t = Done(m1.t)]
     ELSE [m1 EXCEPT !.t.pc = "acreate", !.t.source = sel.id,
                     !.t.stype = sel.type, !.t.target = newId,
                     !.t.handle = AutoHandle(sel, m.t.ce)]

InsertReturnedUnchecked(m, ok, newId) == AfterInsert(m, newId)

(* if (nodeError) return; if (!createdNode) return; *)
InsertReturned(m, ok, newId) ==
  IF ok THEN AfterInsert(m, newId) ELSE [m EXCEPT !.t = Done(m.t)]

InsertNode(i, ok) ==
  /\ tasks[i].pc = "ainsert"
  /\ Outcome(ok)
  /\ IF ok
     THEN /\ FreeNodeIds # {}
          /\ rnodes' = rnodes \cup
               {MkNode(NewNodeId, tasks[i].ntype, 0, 0, 0, DefaultPos)}
     ELSE UNCHANGED rnodes
  /\ Apply(i, InsertReturned(Machine(i), ok, NewNodeId))
  /\ UNCHANGED <<redges, loadVars, timeVars>>

AddNodeCreateEdge(i, ok) ==
  /\ tasks[i].pc = "acreate"
  /\ Outcome(ok)
  /\ createEdge(ok, tasks[i].source, tasks[i].target)
  /\ Apply(i, AfterCreate(Machine(i), ok))
  /\ UNCHANGED <<rnodes, loadVars, timeVars>>

----------------------------------------------------------------------------
(* AI prompt generation: handleGeneratePrompt of AnalysisNode and of       *)
(* PromptNode (nodes.tsx), and the onPromptChange callback of graph.tsx     *)

KeyNeverMissing(key) == FALSE

(* if (!user?.openai_api_key) { toast.error(...); return; } *)
KeyMissing(key) == ~key

(* the node types whose renderer has the AI prompt dialog *)
GeneratingTypes == {"analysis", "prompt"}

(* the nodes whose data carries onPromptChange: fetchGraph and            *)
(* handleAddNode give the callback to nodes of type prompt only             *)
HasPromptCallback(ty) == ty = "prompt"

handleGeneratePromptStart(i, n) ==
  /\ mounted /\ ~isLoading
  /\ Free(i)
  /\ n \in nodes /\ n.type \in GeneratingTypes
  /\ LET t0 == [NewTask("generate") EXCEPT !.source = n.id, !.stype = n.type]
     IN tasks' = [tasks EXCEPT ![i] =
          IF KeyMissing(apiKey) THEN Done(t0) ELSE [t0 EXCEPT !.pc = "gsession"]]
  /\ UNCHANGED <<localVars, storeVars, loadVars, timeVars>>

(* await supabase.auth.getSession(); if (!session?.access_token) throw *)
GetSession(i, ok) ==
  /\ tasks[i].pc = "gsession"
  /\ Outcome(ok)
  /\ tasks' = [tasks EXCEPT ![i] =
       IF ok THEN [tasks[i] EXCEPT !.pc = "gfetch"] ELSE Done(tasks[i])]
  /\ UNCHANGED <<localVars, remoteVars, loadVars, timeVars>>

(* data.onPromptChange?.(id, newData) -> updateNodeData(nodeId, {prompt}) *)
PromptChange(m, text) ==
  IF HasPromptCallback(m.t.stype)
  THEN StartRel(m, m.t.source, "prompt", text)
  ELSE [m EXCEPT !.t = Done(m.t)]

(* await fetch("/api/ai", ...): an error response throws, a generated     *)
(* text goes to onPromptChange                                               *)
AiResponds(i, ok, text) ==
  /\ tasks[i].pc = "gfetch"
  /\ Outcome(ok)
  /\ text \in 1..MaxText
  /\ LET m == Machine(i)
     IN Apply(i, IF ok THEN PromptChange(m, text) ELSE [m EXCEPT !.t = Done(m.t)])
  /\ UNCHANGED <<remoteVars, loadVars, timeVars>>

----------------------------------------------------------------------------
(* Position synchronization: onNodesChangeCallback with a position change, *)
(* debouncedUpdatePositions, updateGraphData                                *)

Min(a, b) == IF a < b THEN a ELSE b

ClearTimeoutForgotten(ts, ref) == ts

(* clearTimeout(positionUpdateTimeoutRef.current) *)
ClearTimeout(ts, ref) == IF ref # NoTimer THEN ts \ {ref} ELSE ts

(* debouncedUpdatePositions: the timeouts pending afterwards *)
Debounced(ts, ref, newNodes) ==
  ClearTimeout(ts, ref) \cup {[left |-> DebounceMs, snap |-> newNodes]}

onNodesChangePosition(n, p) ==
  /\ mounted /\ ~isLoading
  /\ n \in Ids(nodes)
  /\ p \in 0..MaxPos
  /\ LET newNodes == SetNodeField(nodes, n, "pos", p)
     IN /\ nodes' = newNodes
        /\ timers' = Debounced(timers, timeoutRef, newNodes)
        /\ timeoutRef' = [left |-> DebounceMs, snap |-> newNodes]
  /\ quiet' = 0
  /\ runMoves' = IF quiet >= DebounceMs THEN 1 ELSE Min(runMoves + 1, MaxMoves)
  /\ runBatches' = IF quiet >= DebounceMs THEN 0 ELSE runBatches
  /\ UNCHANGED <<edges, selectedNode, storeVars, loadVars, tasks, lastBatch, updating>>

(* TickMs pass; a timeout that is due fires before time moves on *)
Tick ==
  /\ \A T \in timers : T.left > 0
  /\ timers # {} \/ quiet < DebounceMs
  /\ timers' = {[T EXCEPT !.left = @ - TickMs] : T \in timers}
  /\ timeoutRef' = IF timeoutRef \in timers
                   THEN [timeoutRef EXCEPT !.left = @ - TickMs]
                   ELSE timeoutRef
  /\ quiet' = Min(quiet + TickMs, DebounceMs)
  /\ UNCHANGED <<localVars, storeVars, loadVars, tasks, runMoves, runBatches,
                 lastBatch, updating>>

(* onUpdateStart?.(): one more batch the parent has been told has started *)
UpdateStart(n) == n + 1

UpdateEndSkipped(n) == n

(* finally { onUpdateEnd?.() }: one batch fewer *)
UpdateEnd(n) == n - 1

(* the timeout's callback: updateGraphData(newNodes, newEdges) up to its   *)
(* first await, then positionUpdateTimeoutRef.current = null                *)
TimeoutFires(i, T) ==
  /\ T \in timers /\ T.left = 0
  /\ Free(i)
  /\ timers' = timers \ {T}
  /\ timeoutRef' = NoTimer
  /\ LET t0 == [IdleTask EXCEPT !.op = "positions", !.cn = T.snap,
                                !.ptodo = Ids(T.snap), !.pc = "pwrite"]
     IN tasks' = [tasks EXCEPT ![i] = IF T.snap = {} THEN Done(t0) ELSE t0]
  /\ updating' = IF T.snap = {} THEN UpdateEnd(UpdateStart(updating))
                 ELSE UpdateStart(updating)
  /\ runBatches' = runBatches + 1
  /\ lastBatch' = T.snap
  /\ UNCHANGED <<localVars, storeVars, loadVars, quiet, runMoves>>

RemainingWritesStopOnError(ok, rest) == IF ok THEN rest ELSE {}

(* updateGraphData: if (error) { console.error(...) }, and the loop goes on *)
RemainingWrites(ok, rest) == rest

(* updateGraphData: one position update per node of the batch *)
WritePosition(i, ok) ==
  /\ tasks[i].pc = "pwrite"
  /\ Outcome(ok)
  /\ LET n == CHOOSE x \in tasks[i].ptodo : \A y \in tasks[i].ptodo : x <= y
         rest == RemainingWrites(ok, tasks[i].ptodo \ {n})
         t1 == [tasks[i] EXCEPT !.ptodo = rest]
     IN /\ rnodes' = IF ok
                     THEN {IF r.id = n THEN [r EXCEPT !.pos = Find(tasks[i].cn, n).pos]
                           ELSE r : r \in rnodes}
                     ELSE rnodes
        /\ tasks' = [tasks EXCEPT ![i] = IF rest = {} THEN Done(t1) ELSE t1]
        /\ updating' = IF rest = {} THEN UpdateEnd(updating) ELSE updating
  /\ UNCHANGED <<localVars, redges, loadVars, timeoutRef, timers, quiet, runMoves,
                 runBatches, lastBatch>>

(* updateGraphData: an update that throws ends the loop: catch (error) {   *)
(* console.error(...); return false }, then the finally block              *)
WriteThrows(i) ==
  /\ tasks[i].pc = "pwrite"
  /\ Outcome(FALSE)
  /\ tasks' = [tasks EXCEPT ![i] = Done(tasks[i])]
  /\ updating' = UpdateEnd(updating)
  /\ UNCHANGED <<localVars, remoteVars, loadVars, timeoutRef, timers, quiet, runMoves,
                 runBatches, lastBatch>>

----------------------------------------------------------------------------
(* Unmount: the cleanup of the effect with no dependencies *)

UnmountCleanupMissing(ts, ref) == ts

(* if (positionUpdateTimeoutRef.current) clearTimeout(...current) *)
UnmountCleanup(ts, ref) == ClearTimeout(ts, ref)

Unmount ==
  /\ mounted
  /\ mounted' = FALSE
  /\ timers' = UnmountCleanup(timers, timeoutRef)
  /\ UNCHANGED <<localVars, storeVars, tasks, isLoading, apiKey, loadPc, loadNodes,
                 timeoutRef, quiet, runMoves, runBatches, lastBatch, updating>>

----------------------------------------------------------------------------
(* Specifications *)

(* the slot a handler started now runs in, with k slots usable *)
FreeSlot(i, k) == i \in 1..k /\ Free(i) /\ \A j \in 1..(i - 1) : ~Free(j)

(* at most MaxOps user operations are started *)
StartSlot(i, k) == FreeSlot(i, k) /\ Started < MaxOps

Load ==
  \/ \E ok \in BOOLEAN : FetchGraphRecord(ok) \/ FetchNodes(ok) \/ FetchEdges(ok)
  \/ FetchThrows

Click == \E n \in nodes : onNodeClick(n)

ConnectStarts(k) ==
  \E i \in TaskIds, s \in NodeIds, t \in NodeIds, h \in {"none", "true", "false"} :
    StartSlot(i, k) /\ onConnectStart(i, s, t, h)

ConnectSteps ==
  \E i \in TaskIds, ok \in BOOLEAN :
    ConnectDeleteEdge(i, ok) \/ ConnectCreateEdge(i, ok)

RelSteps ==
  \E i \in TaskIds, ok \in BOOLEAN : SelectNodeData(i, ok) \/ UpdateNodeData(i, ok)

EdgesChangeStarts(k) ==
  \E i \in TaskIds, R \in SUBSET edges :
    StartSlot(i, k) /\ onEdgesChangeStart(i, R)

EdgesChangeSteps == \E i \in TaskIds, ok \in BOOLEAN : EdgesChangeDeleteEdge(i, ok)

NodesChangeStarts(k) ==
  \E i \in TaskIds, q \in RemoveBatches :
    StartSlot(i, k) /\ onNodesChangeStart(i, q)

KeyDown(k) == \E i \in TaskIds : StartSlot(i, k) /\ onKeyDown(i)

NodesChangeSteps ==
  \E i \in TaskIds, ok \in BOOLEAN : DeleteNodeEdge(i, ok) \/ DeleteNodeRow(i, ok)

AddNodeStarts(k) ==
  \E i \in TaskIds, ty \in NodeType \cup {"none"} :
    StartSlot(i, k) /\ handleAddNodeStart(i, ty)

AddNodeSteps ==
  \E i \in TaskIds, ok \in BOOLEAN : InsertNode(i, ok) \/ AddNodeCreateEdge(i, ok)

GenerateStarts(k) ==
  \E i \in TaskIds, n \in nodes : StartSlot(i, k) /\ handleGeneratePromptStart(i, n)

GenerateSteps ==
  \E i \in TaskIds, ok \in BOOLEAN :
    GetSession(i, ok) \/ \E text \in 1..MaxText : AiResponds(i, ok, text)

Moves == \E n \in NodeIds, p \in 0..MaxPos : onNodesChangePosition(n, p)

Fires == \E i \in TaskIds, T \in timers : FreeSlot(i, MaxTasks) /\ TimeoutFires(i, T)

(* the awaited update of batch i settles *)
WritesOf(i) == WriteThrows(i) \/ \E ok \in BOOLEAN : WritePosition(i, ok)

Writes == \E i \in TaskIds : WritesOf(i)

(* every graph operation, handlers overlapping *)
Next ==
  \/ Load
  \/ Click
  \/ ConnectStarts(MaxTasks) \/ ConnectSteps \/ RelSteps
  \/ EdgesChangeStarts(MaxTasks) \/ EdgesChangeSteps
  \/ NodesChangeStarts(MaxTasks) \/ KeyDown(MaxTasks) \/ NodesChangeSteps
  \/ AddNodeStarts(MaxTasks) \/ AddNodeSteps
  \/ GenerateStarts(MaxTasks) \/ GenerateSteps

Spec == Init /\ [][Next]_vars

(* every graph operation, each handler run to completion before the next *)
NextSeq ==
  \/ Load
  \/ Click
  \/ ConnectStarts(1) \/ ConnectSteps \/ RelSteps
  \/ EdgesChangeStarts(1) \/ EdgesChangeSteps
  \/ NodesChangeStarts(1) \/ KeyDown(1) \/ NodesChangeSteps
  \/ AddNodeStarts(1) \/ AddNodeSteps

SpecSeq == Init /\ [][NextSeq]_vars

(* connect operations only, handlers overlapping *)
NextConnect == Load \/ ConnectStarts(MaxTasks) \/ ConnectSteps \/ RelSteps

SpecConnect == InitWith({StoreThree, StoreLinked}) /\ [][NextConnect]_vars

(* graphs built by connect and add-node operations, one at a time *)
NextBuild ==
  \/ Load
  \/ Click
  \/ ConnectStarts(1) \/ ConnectSteps \/ RelSteps
  \/ AddNodeStarts(1) \/ AddNodeSteps

SpecBuild == Init /\ [][NextBuild]_vars

(* graph loads of stored graphs of every shape *)
NextLoad == Load

SpecLoad == InitWith(LoadStores) /\ [][NextLoad]_vars

(* edge removals only, handlers overlapping *)
NextEdges == Load \/ EdgesChangeStarts(MaxTasks) \/ EdgesChangeSteps \/ RelSteps

SpecEdges == InitWith({StoreLinked}) /\ [][NextEdges]_vars

(* position changes, the debounce timer and the write batches *)
NextPos == Load \/ Moves \/ Tick \/ Fires \/ Writes

SpecPos == InitWith({StorePair}) /\ [][NextPos]_vars

(* the same, every write batch that has been started going on: the awaited *)
(* update of each batch in flight returns, or throws                         *)
SpecBracket ==
  InitWith({StorePair}) /\ [][NextPos]_vars /\ \A i \in TaskIds : WF_vars(WritesOf(i))

(* position changes, and the component unmounting at any moment *)
NextUnmount == NextPos \/ Unmount

SpecUnmount == InitWith({StorePair}) /\ [][NextUnmount]_vars

(* the same, starting from a conditional node with both handles connected *)
SpecBranched == InitWith({StoreBranched}) /\ [][NextBuild]_vars

(* add-node, connect, edge-removal and node-deletion operations, handlers  *)
(* overlapping                                                               *)
NextMixed ==
  \/ Load
  \/ Click
  \/ ConnectStarts(MaxTasks) \/ ConnectSteps \/ RelSteps
  \/ EdgesChangeStarts(MaxTasks) \/ EdgesChangeSteps
  \/ NodesChangeStarts(MaxTasks) \/ NodesChangeSteps
  \/ AddNodeStarts(MaxTasks) \/ AddNodeSteps

SpecMixed == InitWith({StorePair}) /\ [][NextMixed]_vars

(* AI prompt generation, with and without an API key, overlapping with   *)
(* connect operations                                                        *)
NextPrompt ==
  \/ Load
  \/ GenerateStarts(MaxTasks) \/ GenerateSteps
  \/ ConnectStarts(MaxTasks) \/ ConnectSteps \/ RelSteps

SpecPrompt == InitUser({StoreThree, StoreLinked}, BOOLEAN) /\ [][NextPrompt]_vars

----------------------------------------------------------------------------
(* Properties *)

OutEdges(es, s) == {e \in es : e.source = s}

HandleEdges(es, s, h) == {e \in es : e.source = s /\ e.sourceHandle = h}

(* task i takes a step *)
Steps(i) == tasks'[i] # tasks[i]

(* task i returns in this step, having created its edge *)
Commits(i, op) ==
  /\ tasks[i].pc # "done" /\ tasks'[i].pc = "done"
  /\ tasks'[i].op = op
  /\ tasks'[i].newEdge # NoEdge

(* C1: in every sequence of connect operations an analysis node has at most *)
(* one outgoing edge in the local edge set at any time, and a connect from  *)
(* an analysis source that created its edge leaves that edge as the         *)
(* source's only outgoing edge.                                              *)
C1_AnalysisSingleEdge ==
  /\ [](\A n \in nodes : n.type = "analysis" => Cardinality(OutEdges(edges, n.id)) <= 1)
  /\ [][\A i \in TaskIds :
          (Commits(i, "connect") /\ tasks'[i].stype = "analysis")
            => OutEdges(edges', tasks'[i].source) = {tasks'[i].newEdge}]_vars

C1_Witness ==
  \E i \in TaskIds :
    /\ tasks[i].op = "connect" /\ tasks[i].pc = "done" /\ tasks[i].stype = "analysis"
    /\ \E old \in tasks[i].existing : old.target # tasks[i].target /\ old \notin edges
    /\ OutEdges(edges, tasks[i].source) = {tasks[i].newEdge}

Other(h) == IF h = "true" THEN "false" ELSE "true"

(* C2: in every sequence of connect operations a conditional node has at    *)
(* most one outgoing edge per handle; a connect on a handle that created    *)
(* its edge leaves that edge as the only one on the handle and the other    *)
(* handle's edges as they were; it sets the handle's field to the target    *)
(* and no step of it changes the other handle's field.                       *)
C2_ConditionalSingleEdgePerHandle ==
  /\ [](\A n \in nodes : \A h \in {"true", "false"} :
          n.type = "conditional" => Cardinality(HandleEdges(edges, n.id, h)) <= 1)
  /\ [][\A i \in TaskIds :
          (tasks'[i].op = "connect" /\ tasks'[i].stype = "conditional" /\ Steps(i))
            => LET s == tasks'[i].source
                   h == tasks'[i].handle
               IN /\ Commits(i, "connect") =>
                       /\ HandleEdges(edges', s, h) = {tasks'[i].newEdge}
                       /\ HandleEdges(edges', s, Other(h)) = HandleEdges(edges, s, Other(h))
                  /\ (tasks[i].pc = "create" /\ tasks'[i].newEdge # NoEdge) =>
                       Find(nodes', s)[RelField("conditional", h)] = tasks'[i].target
                  /\ (tasks[i].op = "connect" /\ s \in Ids(nodes)) =>
                       Find(nodes', s)[RelField("conditional", Other(h))]
                         = Find(nodes, s)[RelField("conditional", Other(h))]]_vars

C2_Witness ==
  \E i \in TaskIds :
    /\ tasks[i].op = "connect" /\ tasks[i].pc = "done" /\ tasks[i].stype = "conditional"
    /\ tasks[i].handle = "true"
    /\ \E old \in tasks[i].existing : old.target # tasks[i].target /\ old \notin edges
    /\ HandleEdges(edges, tasks[i].source, "true") = {tasks[i].newEdge}
    /\ Find(nodes, tasks[i].source).trueChildId = tasks[i].target
    /\ Find(nodes, tasks[i].source).falseChildId = 0

Quiescent == ~isLoading /\ \A i \in TaskIds : Free(i)

(* the field mirrors the edges: unset when there is none, their target otherwise *)
Mirrors(field, es) ==
  IF es = {} THEN field = 0 ELSE \A e \in es : e.target = field

FieldsMirror(ns, es) ==
  \A n \in ns :
    /\ n.type = "analysis" => Mirrors(n.childId, OutEdges(es, n.id))
    /\ n.type = "conditional" =>
         /\ Mirrors(n.trueChildId, HandleEdges(es, n.id, "true"))
         /\ Mirrors(n.falseChildId, HandleEdges(es, n.id, "false"))

(* C3: whenever no handler is in flight (and no remote call has failed),    *)
(* every node's childId / trueChildId / falseChildId mirrors its outgoing   *)
(* edges in the local view.                                                  *)
C3_FieldsMirrorEdges == (Quiescent /\ failures = 0) => FieldsMirror(nodes, edges)

(* C5: once a node-removal change has been processed (no remote call       *)
(* having failed), the removed nodes are absent from the local node set.     *)
C5_RemovedNodeAbsent ==
  \A i \in TaskIds :
    (tasks[i].op = "nodesChange" /\ tasks[i].pc = "done" /\ failures = 0)
      => \A k \in 1..Len(tasks[i].removed) : tasks[i].removed[k] \notin Ids(nodes)

(* C6: when no remote call fails, a processed node removal has removed from *)
(* the local edge set exactly the edges touching a removed node, and has    *)
(* cleared, locally and remotely, the relationship field of every surviving *)
(* source of an edge into a removed node.                                    *)
C6_DeleteRemovesTouchingEdges ==
  [][\A i \in TaskIds :
       (tasks[i].op = "nodesChange" /\ tasks[i].pc # "done" /\ tasks'[i].pc = "done"
        /\ failures' = 0)
         => LET gone == SeqRange(tasks'[i].removed)
                before == tasks[i].ce
            IN /\ edges' = {e \in before : e.source \notin gone /\ e.target \notin gone}
               /\ \A e \in before :
                    (e.target \in gone /\ e.source \notin gone
                     /\ e.source \in Ids(tasks[i].cn))
                      => LET fld == RelField(TypeIn(tasks[i].cn, e.source), e.sourceHandle)
                         IN fld # "none" =>
                              /\ Find(nodes', e.source)[fld] = 0
                              /\ Find(rnodes', e.source)[fld] = 0]_vars

(* C8: a node added while an analysis node is selected (no remote call      *)
(* failing) leaves the selected node with exactly one outgoing edge, the    *)
(* automatic edge to the new node, locally and remotely.                     *)
C8_AutoEdgeReplaces ==
  \A i \in TaskIds :
    (tasks[i].op = "addNode" /\ tasks[i].pc = "done" /\ tasks[i].stype = "analysis"
     /\ tasks[i].newEdge # NoEdge /\ failures = 0)
      => /\ OutEdges(edges, tasks[i].source) = {tasks[i].newEdge}
         /\ EdgeIdsOf(OutEdges(redges, tasks[i].source)) = {tasks[i].newEdge.id}

(* C4: a connect from a prompt source returns at once: it makes no remote  *)
(* call and leaves nodes, edges and the remote store as they are; no edge,  *)
(* local or remote, of a graph built by connects and add-nodes has a prompt *)
(* source.                                                                   *)
C4_PromptSourceNeverConnects ==
  /\ [][\A i \in TaskIds :
          (tasks'[i].op = "connect" /\ tasks'[i].stype = "prompt" /\ Steps(i))
            => /\ tasks'[i].pc = "done"
               /\ tasks'[i].newEdge = NoEdge
               /\ UNCHANGED <<nodes, edges, rnodes, redges, failures>>]_vars
  /\ [](\A e \in edges : TypeIn(nodes, e.source) # "prompt")
  /\ [](\A e \in redges : TypeIn(rnodes, e.source) # "prompt")

C4_Witness ==
  \E i \in TaskIds :
    /\ tasks[i].op = "connect" /\ tasks[i].pc = "done" /\ tasks[i].stype = "prompt"
    /\ tasks[i].source \in Ids(nodes) /\ tasks[i].target \in Ids(nodes)
    /\ tasks[i].source # tasks[i].target

(* the first free handle of conditional node s among the edges es *)
FirstFree(es, s) ==
  IF HandleEdges(es, s, "true") = {} THEN "true"
  ELSE IF HandleEdges(es, s, "false") = {} THEN "false"
  ELSE "none"

(* C9: the automatic edge of a node added while a conditional node is       *)
(* selected carries the first handle that was free, true before false, and  *)
(* the selected node's field for that handle is the new node's id.           *)
C9_AutoEdgeFirstFreeHandle ==
  \A i \in TaskIds :
    (tasks[i].op = "addNode" /\ tasks[i].pc = "done" /\ tasks[i].stype = "conditional"
     /\ tasks[i].newEdge # NoEdge)
      => LET s == tasks[i].source
             h == FirstFree(edges \ {tasks[i].newEdge}, s)
         IN /\ tasks[i].newEdge \in edges
            /\ tasks[i].newEdge.source = s
            /\ tasks[i].newEdge.target = tasks[i].newNode
            /\ h # "none" =>
                 /\ tasks[i].newEdge.sourceHandle = h
                 /\ Find(nodes, s)[RelField("conditional", h)] = tasks[i].newNode

C9_Witness ==
  \E i \in TaskIds :
    /\ tasks[i].op = "addNode" /\ tasks[i].pc = "done" /\ tasks[i].stype = "conditional"
    /\ tasks[i].newEdge \in edges
    /\ tasks[i].newEdge.sourceHandle = "false"
    /\ HandleEdges(edges, tasks[i].source, "true") # {}
    /\ Find(nodes, tasks[i].source).falseChildId = tasks[i].newNode

(* C10: a node added while a prompt node is selected is created and added   *)
(* to the local node set, and no step of the operation inserts a remote     *)
(* edge or changes the local edge set.                                       *)
C10_NoAutoEdgeFromPrompt ==
  [][\A i \in TaskIds :
       (tasks'[i].op = "addNode" /\ tasks'[i].cs.type = "prompt" /\ Steps(i))
         => /\ edges' = edges
            /\ redges' = redges
            /\ tasks'[i].newNode # 0 =>
                 /\ tasks'[i].pc = "done"
                 /\ tasks'[i].newNode \in Ids(nodes')
                 /\ tasks'[i].newNode \in Ids(rnodes')]_vars

C10_Witness ==
  \E i \in TaskIds :
    /\ tasks[i].op = "addNode" /\ tasks[i].pc = "done" /\ tasks[i].cs.type = "prompt"
    /\ tasks[i].newNode \in Ids(nodes)
    /\ tasks[i].newEdge = NoEdge

(* C7: at most one debounce timeout is pending; while a run of position     *)
(* changes (each less than DebounceMs after the one before) is going on, no *)
(* write batch has been started for it and the pending timeout holds the    *)
(* current positions; once the timeout has fired, DebounceMs after the last *)
(* change, exactly one batch has been started for the run and it carries    *)
(* the final positions of all nodes.                                         *)
C7_OneBatchPerRun ==
  /\ Cardinality(timers) <= 1
  /\ runBatches <= 1
  /\ timers # {} => /\ runBatches = 0
                    /\ \A T \in timers : T.snap = nodes /\ T = timeoutRef
  /\ runBatches = 1 => quiet >= DebounceMs
  /\ (timers = {} /\ runMoves > 0) => (runBatches = 1 /\ lastBatch = nodes)

C7_Witness ==
  /\ runMoves >= 2
  /\ runBatches = 1
  /\ timers = {}
  /\ Cardinality(lastBatch) >= 2
  /\ \A n \in lastBatch : n.pos # DefaultPos
  /\ \E i \in TaskIds : tasks[i].op = "positions" /\ tasks[i].pc = "done"
  /\ \A r \in rnodes : r.pos # DefaultPos

(* C11: an edge removal clears the relationship field of the edge's source  *)
(* in the step in which the remote delete of the edge succeeded, and leaves  *)
(* the field as it was in the step in which the remote delete failed.        *)
C11_FieldClearedOnlyOnSuccess ==
  [][\A i \in TaskIds :
       (tasks[i].op = "edgesChange" /\ tasks[i].pc = "edel" /\ Steps(i))
         => LET e == MinEdge(tasks[i].todo)
                fld == RelField(TypeIn(nodes, e.source), e.sourceHandle)
            IN (fld # "none" /\ e.source \in Ids(nodes) /\ e.target \in Ids(nodes))
                 => IF e.id \notin EdgeIdsOf(redges')
                    THEN Find(nodes', e.source)[fld] = 0
                    ELSE Find(nodes', e.source)[fld] = Find(nodes, e.source)[fld]]_vars

(* C12: the step that starts an edge removal takes the removed edges out of *)
(* the local edge set, and they stay out of it while the remote deletes are  *)
(* pending and after they have succeeded or failed.                          *)
C12_EdgeRemovedLocally ==
  /\ [][\A i \in TaskIds :
          (Free(i) /\ tasks'[i].op = "edgesChange" /\ tasks'[i].pc = "edel")
            => edges' = edges \ tasks'[i].existing]_vars
  /\ [](\A i \in TaskIds :
          tasks[i].op = "edgesChange" => tasks[i].existing \cap edges = {})

C12_Witness ==
  \E i \in TaskIds :
    /\ tasks[i].op = "edgesChange" /\ tasks[i].pc = "done"
    /\ failures = 1
    /\ \E e \in tasks[i].existing : e.id \in EdgeIdsOf(redges) /\ e \notin edges

(* C13: in a connect, the step in which the remote edge creation fails      *)
(* changes neither the local edge set nor any node and ends the handler      *)
(* without an edge; the step in which it succeeds sets the source's field    *)
(* for the handle to the target, and the handler ends with the created edge  *)
(* in the local edge set.                                                     *)
C13_ConnectCreateOutcome ==
  [][\A i \in TaskIds :
       /\ (tasks[i].op = "connect" /\ tasks[i].pc = "create" /\ Steps(i))
            => LET s == tasks[i].source
                   t == tasks[i].target
                   fld == RelField(tasks[i].stype, tasks[i].handle)
               IN IF redges' = redges
                  THEN /\ nodes' = nodes /\ edges' = edges
                       /\ tasks'[i].pc = "done" /\ tasks'[i].newEdge = NoEdge
                  ELSE /\ \E e \in redges' \ redges :
                            /\ e.source = s /\ e.target = t
                            /\ tasks'[i].newEdge = MkEdge(e.id, s, t, tasks[i].handle)
                       /\ fld # "none" => Find(nodes', s)[fld] = t
       /\ Commits(i, "connect") => tasks'[i].newEdge \in edges']_vars

C13_Witness ==
  \E i \in TaskIds :
    /\ tasks[i].op = "connect" /\ tasks[i].pc = "done" /\ tasks[i].stype = "analysis"
    /\ tasks[i].newEdge = NoEdge
    /\ failures = 1
    /\ Find(nodes, tasks[i].source).childId # tasks[i].target
    /\ ~\E e \in edges : e.source = tasks[i].source /\ e.target = tasks[i].target

(* C14: a load that failed at any step, by an error result or by an         *)
(* exception, leaves the view loading with no nodes and no edges; the view   *)
(* stops loading, and shows nodes and edges, only when all three fetches     *)
(* succeeded.                                                                 *)
C14_FailedLoadKeepsLoading ==
  /\ loadPc = "failed" => (isLoading /\ nodes = {} /\ edges = {})
  /\ ~isLoading => loadPc = "done"
  /\ loadPc # "done" => (nodes = {} /\ edges = {})
  /\ loadPc = "done" =>
       /\ Ids(nodes) = Ids(loadNodes)
       /\ EdgeIdsOf(edges) = EdgeIdsOf({e \in redges : e.source \in Ids(loadNodes)})

(* the handle the statement gives a loaded edge e of source row src *)
HandleAsStated(e, src) ==
  /\ src.type = "conditional" =>
       /\ e.target = src.trueChildId => e.sourceHandle = "true"
       /\ e.target = src.falseChildId => e.sourceHandle = "false"
       /\ e.target \notin {src.trueChildId, src.falseChildId} => e.sourceHandle = "none"
  /\ src.type # "conditional" => e.sourceHandle = "none"

C16_LoadedTypeRecognized ==
  loadPc = "done" =>
    \A n \in nodes :
      /\ n.type \in NodeType
      /\ Find(loadNodes, n.id).type \notin NodeType => n.type = "prompt"

(* C17: in every sequence of load, add-node and connect operations, a node  *)
(* id that enters the local node set is the id of a row of the remote nodes  *)
(* table, and an edge that enters the local edge set has the id, source and  *)
(* target of a row of the remote edges table.                                 *)
C17_IdsFromStore ==
  [][/\ \A n \in nodes' : n.id \notin Ids(nodes) => n.id \in Ids(rnodes')
     /\ \A e \in edges' :
          e.id \notin EdgeIdsOf(edges)
            => \E r \in redges' :
                 r.id = e.id /\ r.source = e.source /\ r.target = e.target]_vars

C17_Witness ==
  \E i \in TaskIds :
    /\ tasks[i].op = "addNode" /\ tasks[i].pc = "done"
    /\ tasks[i].newNode \in Ids(nodes) /\ tasks[i].newNode \in Ids(rnodes)
    /\ tasks[i].newEdge \in edges
    /\ tasks[i].newEdge.id \in EdgeIdsOf(redges)
    /\ tasks[i].newEdge.target = tasks[i].newNode

(* C18: every step of a position write batch, failed or not, leaves the     *)
(* local view as it is and the batch with the writes of its remaining nodes  *)
(* still to attempt; a failed write leaves the remote rows as they are.      *)
C18_WriteFailureIsolated ==
  [][\A i \in TaskIds :
       (tasks[i].op = "positions" /\ tasks[i].pc = "pwrite" /\ Steps(i))
         => /\ nodes' = nodes /\ edges' = edges
            /\ \E n \in tasks[i].ptodo :
                 /\ tasks'[i].ptodo = tasks[i].ptodo \ {n}
                 /\ \A r \in rnodes' :
                      r.id # n => r \in rnodes
                 /\ failures' # failures => rnodes' = rnodes
            /\ tasks'[i].pc = IF tasks'[i].ptodo = {} THEN "done" ELSE "pwrite"]_vars

C18_Witness ==
  \E i \in TaskIds :
    /\ tasks[i].op = "positions" /\ tasks[i].pc = "done"
    /\ failures = 1
    /\ lastBatch = nodes
    /\ \E a, b \in nodes :
         /\ a.id < b.id
         /\ a.pos # DefaultPos /\ Find(rnodes, a.id).pos = DefaultPos
         /\ b.pos # DefaultPos /\ Find(rnodes, b.id).pos = b.pos

(* C19: the step that starts a node creation changes neither the local     *)
(* view nor the remote store, and ends the handler at once when a field is   *)
(* missing; the step in which the remote insert fails leaves nodes, edges    *)
(* and the remote edges as they are and ends the handler without a node or   *)
(* an edge; the step in which it succeeds adds the inserted row's node, at   *)
(* the default position, to the local node set.                              *)
C19_NodeCreatedRemotelyFirst ==
  [][\A i \in TaskIds :
       /\ (Free(i) /\ tasks'[i].op = "addNode" /\ Steps(i))
            => /\ UNCHANGED <<nodes, edges, rnodes, redges>>
               /\ tasks'[i].ntype = "none" =>
                    /\ tasks'[i].pc = "done"
                    /\ tasks'[i].newNode = 0 /\ tasks'[i].newEdge = NoEdge
       /\ (tasks[i].op = "addNode" /\ tasks[i].pc = "ainsert" /\ Steps(i))
            => IF rnodes' = rnodes
               THEN /\ UNCHANGED <<nodes, edges, redges>>
                    /\ tasks'[i].pc = "done"
                    /\ tasks'[i].newNode = 0 /\ tasks'[i].newEdge = NoEdge
               ELSE \E r \in rnodes' \ rnodes :
                      /\ r.type = tasks[i].ntype /\ r.pos = DefaultPos
                      /\ nodes' = nodes \cup
                           {MkNode(r.id, tasks[i].ntype, 0, 0, 0, DefaultPos)}]_vars

C19_Witness ==
  \E i \in TaskIds :
    /\ tasks[i].op = "addNode" /\ tasks[i].pc = "done"
    /\ tasks[i].ntype \in NodeType
    /\ tasks[i].cs.type = "analysis"
    /\ tasks[i].newNode = 0 /\ tasks[i].newEdge = NoEdge
    /\ failures = 1
    /\ Ids(nodes) = Ids(rnodes)

DeletesNode(i) ==
  /\ tasks'[i].op = "nodesChange" /\ Steps(i)
  /\ \/ Free(i)
     \/ tasks[i].pc = "nrow" /\ Len(tasks[i].rem) > 1

(* C21: the step in which a node's deletion starts (no remote call having  *)
(* failed) clears the selection                                              *)
(* when that node is the selected node and leaves the selection as it is     *)
(* otherwise; a removal of one node, by a key press or by a change, takes    *)
(* exactly that node out of the local node set.                              *)
C21_DeletionClearsSelection ==
  [][\A i \in TaskIds :
       (DeletesNode(i) /\ failures' = 0)
         => /\ selectedNode' =
                 IF selectedNode.id = tasks'[i].cur THEN NoSel ELSE selectedNode
            /\ (Free(i) /\ Len(tasks'[i].removed) = 1)
                 => nodes' = {x \in nodes : x.id # tasks'[i].cur}]_vars

----------------------------------------------------------------------------
(* How far a handler is from its return: the removals still to run, the    *)
(* loop items still to visit, and its place among the awaits of one item   *)
Rank(pc) ==
  CASE pc = "gsession" -> 8
    [] pc = "gfetch" -> 7
    [] pc = "ainsert" -> 6
    [] pc = "acreate" -> 5
    [] pc = "create" -> 4
    [] pc = "relsel" -> 3
    [] pc = "relupd" -> 2
    [] pc \in {"del", "edel", "ndel", "nrow", "pwrite"} -> 1
    [] OTHER -> 0

Pending(t) == <<Len(t.rem), Cardinality(t.todo) + Cardinality(t.ptodo), Rank(t.pc)>>

LoadRank(pc) ==
  CASE pc = "graph" -> 3 [] pc = "nodes" -> 2 [] pc = "edges" -> 1 [] OTHER -> 0

LexLess(a, b) ==
  \/ a[1] < b[1]
  \/ a[1] = b[1] /\ a[2] < b[2]
  \/ a[1] = b[1] /\ a[2] = b[2] /\ a[3] < b[3]

(* handler i has just come back from a remote call *)
Returned(i) ==
  /\ ~Free(i)
  /\ \/ tasks'[i] # tasks[i]
     \/ failures' # failures /\ \A j \in TaskIds \ {i} : tasks'[j] = tasks[j]

(* C22: no remote call is retried.  Every remote request of an operation  *)
(* has its own place in the handler (the await, and the loop item it is    *)
(* for); whenever a request returns, failed or not, the handler moves on   *)
(* to a place strictly nearer to its return, so that no place, and no      *)
(* request, comes twice.  The same holds for the three requests of a load. *)
C22_NoRetry ==
  [][/\ \A i \in TaskIds :
          Returned(i) => LexLess(Pending(tasks'[i]), Pending(tasks[i]))
     /\ loadPc' # loadPc => LoadRank(loadPc') < LoadRank(loadPc)]_vars

(* a node deletion that went on to the node row after a failed delete of   *)
(* one of the node's edges, which is still stored                           *)
C22_Witness ==
  \E i \in TaskIds :
    /\ tasks[i].op = "nodesChange" /\ tasks[i].pc = "nrow"
    /\ failures = 1
    /\ \E e \in redges :
         /\ e.source = tasks[i].cur \/ e.target = tasks[i].cur
         /\ e.id \in EdgeIdsOf(tasks[i].ce)

----------------------------------------------------------------------------
(* a node or a row without its prompt text: its structure *)
Structure(n) == [n EXCEPT !.prompt = 0]

(* C23: AI prompt generation never mutates graph structure.  No step of   *)
(* handleGeneratePrompt, whatever its outcome, changes the local or the     *)
(* remote edges, adds or removes a node or a row, changes a type, a         *)
(* position or a relationship field, or the selection; what it changes is   *)
(* the prompt of the node it was invoked on, locally only in the step in    *)
(* which the generated text arrives; and without an API key the handler     *)
(* returns at once, no request sent and nothing changed.                    *)
C23_GenerateKeepsStructure ==
  [][\A i \in TaskIds :
       (tasks'[i].op = "generate" /\ tasks'[i] # tasks[i])
         => /\ edges' = edges /\ redges' = redges /\ selectedNode' = selectedNode
            /\ {Structure(n) : n \in nodes'} = {Structure(n) : n \in nodes}
            /\ {Structure(r) : r \in rnodes'} = {Structure(r) : r \in rnodes}
            /\ \A n \in nodes' \ nodes : n.id = tasks'[i].source
            /\ \A r \in rnodes' \ rnodes : r.id = tasks'[i].source
            /\ nodes' # nodes => tasks[i].pc = "gfetch"
            /\ ~apiKey => /\ Free(i) /\ tasks'[i].pc = "done"
                          /\ failures' = failures
                          /\ nodes' = nodes /\ rnodes' = rnodes]_vars

(* a generation has succeeded for a prompt node while a connect that       *)
(* started before it ended was creating an edge: the text is in the local   *)
(* node and in its row                                                       *)
C23_Witness ==
  \E i, j \in TaskIds :
    /\ tasks[i].op = "generate" /\ tasks[i].pc = "done"
    /\ tasks[j].op = "connect" /\ tasks[j].pc \in {"relsel", "relupd"}
    /\ \E n \in nodes :
         /\ n.id = tasks[i].source /\ n.prompt # 0
         /\ \E r \in rnodes : r.id = n.id /\ r.prompt = n.prompt

----------------------------------------------------------------------------
(* the local edges on the slot a connect is for: every edge out of an      *)
(* analysis source, the edges of the handle of a conditional source         *)
Slot(es, t) == {e \in es : ~ConnectKeeps(e, t.stype, t.source, t.handle)}

----------------------------------------------------------------------------
(* connectedEdges of deleteNode: the edges of the handler's view that      *)
(* touch the node being deleted                                              *)
Touching(t) == {e \in t.ce : e.source = t.cur \/ e.target = t.cur}

----------------------------------------------------------------------------
(* handler i has returned from an updateNodeData call that set fld of row  *)
(* relId to val                                                              *)
Updated(i) == tasks[i].pc = "done" /\ tasks[i].fld # "none"

(* C26: when two payload updates of the same node that set different       *)
(* fields have both completed, and no remote call has failed, the node's    *)
(* row holds both values.                                                    *)
C26_BothUpdatesKept ==
  \A i, j \in TaskIds :
    (/\ i # j /\ Updated(i) /\ Updated(j)
     /\ tasks[i].relId = tasks[j].relId /\ tasks[i].fld # tasks[j].fld
     /\ failures = 0)
      => \A r \in rnodes :
           r.id = tasks[i].relId
             => r[tasks[i].fld] = tasks[i].val /\ r[tasks[j].fld] = tasks[j].val

----------------------------------------------------------------------------
(* the remote store agrees with the local view *)
Agrees(ns, es, rows, res) ==
  /\ {MkRemoteEdge(e.id, e.source, e.target) : e \in es} = res
  /\ Ids(ns) = Ids(rows)
  /\ \A n \in ns, r \in rows :
       n.id = r.id => /\ n.childId = r.childId
                      /\ n.trueChildId = r.trueChildId
                      /\ n.falseChildId = r.falseChildId

(* C27: with operations one at a time and every remote call successful,    *)
(* whenever the load and every operation started so far have completed the  *)
(* remote store agrees with the local view: the same edges, the same nodes, *)
(* the same relationship fields.                                             *)
C27_RemoteAgreesWithLocal ==
  (Quiescent /\ loadPc = "done" /\ failures = 0) => Agrees(nodes, edges, rnodes, redges)

----------------------------------------------------------------------------
(* C28: reload round trip.  With connect and add-node operations one at a  *)
(* time and every remote call successful, whenever the operations started   *)
(* so far have completed, a load of the stored graph yields the local edge  *)
(* set, with the same handle on every edge.                                  *)
C28_ReloadRoundTrip ==
  (Quiescent /\ loadPc = "done" /\ failures = 0) => LoadedEdges(rnodes, redges) = edges

----------------------------------------------------------------------------
(* C29: every edge of the local view whose source is a conditional node    *)
(* carries the handle true or false, and a conditional node has at most two *)
(* outgoing edges.                                                           *)
C29_ConditionalEdgesHaveHandles ==
  \A n \in nodes :
    n.type = "conditional"
      => /\ \A e \in OutEdges(edges, n.id) : e.sourceHandle \in {"true", "false"}
         /\ Cardinality(OutEdges(edges, n.id)) <= 2

----------------------------------------------------------------------------
(* C30: a connect that found an edge to replace and whose remote edge      *)
(* creation failed (the only remote call to fail) leaves the store as it    *)
(* was: the edge it found is still stored, as the local view shows it.      *)
C30_FailedCreateKeepsStoredEdge ==
  \A i \in TaskIds :
    (/\ tasks[i].op = "connect" /\ tasks[i].pc = "done"
     /\ tasks[i].existing # {} /\ tasks[i].newEdge = NoEdge
     /\ \A j \in TaskIds \ {i} : tasks[j].op = "none")
      => \A e \in tasks[i].existing :
           e \in edges => e.id \in EdgeIdsOf(redges)

----------------------------------------------------------------------------
(* C31: when two connects on the same analysis source have both returned   *)
(* with their edge, and no remote call has failed, the store holds at most  *)
(* one outgoing edge of the source, the local view holds that same edge,    *)
(* and the source's childId, locally and in its row, is that edge's target. *)
C31_OverlappingConnectsOneEdge ==
  \A i, j \in TaskIds :
    (/\ i # j /\ failures = 0
     /\ tasks[i].op = "connect" /\ tasks[i].pc = "done" /\ tasks[i].newEdge # NoEdge
     /\ tasks[j].op = "connect" /\ tasks[j].pc = "done" /\ tasks[j].newEdge # NoEdge
     /\ tasks[i].stype = "analysis" /\ tasks[i].source = tasks[j].source)
      => LET s == tasks[i].source
         IN /\ Cardinality(OutEdges(redges, s)) <= 1
            /\ {MkRemoteEdge(e.id, e.source, e.target) : e \in OutEdges(edges, s)}
                 = OutEdges(redges, s)
            /\ \A e \in OutEdges(edges, s) :
                 /\ Find(nodes, s).childId = e.target
                 /\ Find(rnodes, s).childId = e.target

----------------------------------------------------------------------------
(* the write batches in flight *)
InFlight == {i \in TaskIds : tasks[i].op = "positions" /\ tasks[i].pc = "pwrite"}

(* C32: every position write batch is bracketed by the update callbacks.   *)
(* At any time the onUpdateStart calls not yet followed by an onUpdateEnd   *)
(* are as many as the batches in flight: a batch is in flight with exactly  *)
(* one start and no end, and is over with its one end, never the other way  *)
(* round; the step that starts a batch calls onUpdateStart once; the step   *)
(* that ends it, by a write that succeeds, fails or throws, calls           *)
(* onUpdateEnd once; and every batch in flight ends.                        *)
C32_BatchBracketed ==
  /\ [](updating = Cardinality(InFlight))
  /\ [][\A i \in TaskIds :
          /\ (i \notin InFlight /\ (i \in InFlight)') => updating' = updating + 1
          /\ (i \in InFlight /\ (i \notin InFlight)') => updating' = updating - 1
          /\ InFlight' = InFlight => updating' = updating]_vars
  /\ \A i \in TaskIds : (i \in InFlight) ~> (i \notin InFlight)

(* a batch has ended by a write that threw, with writes never attempted,   *)
(* and its onUpdateEnd has been called                                       *)
C32_Witness ==
  \E i \in TaskIds :
    /\ tasks[i].op = "positions" /\ tasks[i].pc = "done"
    /\ tasks[i].ptodo # {}
    /\ failures = 1
    /\ updating = 0

----------------------------------------------------------------------------
(* C33: no dangling edges.  Both endpoints of every edge of the local view *)
(* are nodes of the local view (in every state reached without a failed     *)
(* remote call, to begin with).                                              *)
C33_NoDanglingEdges ==
  failures = 0 => \A e \in edges : e.source \in Ids(nodes) /\ e.target \in Ids(nodes)

====
